---------------------------- MODULE Spec2Model ----------------------------
(***************************************************************************)
(* The IMD reshaper (tools/process_imd.py) and the HES repair / collapse   *)
(* pipeline (tools/repair_synthetic_hes.py).                               *)
(*                                                                         *)
(* Representation.                                                         *)
(*   - a string is a sequence of one-character strings, ordered by the     *)
(*     code points of its characters (Alphabet lists them ascending);      *)
(*   - a nullable scalar (NaN / <NA> / SQL NULL) is a set with at most one *)
(*     element: NA is {} and a present value v is {v};                     *)
(*   - a date cell is <<kind, day>>: <<"ts", d>> is the timestamp d days   *)
(*     after 1900-01-01, <<"str", 0>> a text that does not parse as a      *)
(*     date, <<"NaT", 0>> the missing timestamp;                           *)
(*   - a data frame or SQL relation is a sequence of records.              *)
(***************************************************************************)
EXTENDS Integers, Sequences, FiniteSets, TLC

VARIABLES
    pc,        \* position of the running script
    dir,       \* --in as a directory: the names of its entries
    isdir,     \* os.path.isdir(inp)
    content,   \* the rows every input CSV file holds
    n_years,   \* --n_years (NA: None)
    files,     \* list_year_csvs: the files to read
    dfs,       \* load_df: the frames read so far
    df,        \* the episode frame
    imd,       \* the deprivation lookup: [cols, rows]
    spell,     \* the spell frame
    outdir,    \* os.path.dirname(outp)
    out,       \* the written output artifact (NA: nothing written)
    err,       \* the exception that ended the run ("": none)
    sheet,     \* process_imd: the IMD2019 sheet, then the reshaped table
    imdout,    \* process_imd: the written lookup (NA: nothing written)
    df_in      \* history: df as clean_and_collapse received it

vars == <<pc, dir, isdir, content, n_years, files, dfs, df, imd, spell,
          outdir, out, err, sheet, imdout, df_in>>

---------------------------------------------------------------------------
(* Nullable scalars and strings                                            *)

NA == {}

Some(v) == {v}

Val(x) == CHOOSE v \in x : TRUE

NaT == <<"NaT", 0>>

Ts(d) == <<"ts", d>>

BadDate == <<"str", 0>>

Alphabet ==
    <<".", "0", "1", "2", "3", "4", "5", "6", "7", "8", "9", "A", "B", "P",
      "c", "s", "t", "v", "x", "|">>

Ord(c) == CHOOSE i \in DOMAIN Alphabet : Alphabet[i] = c

\* Python / DuckDB string comparison: a < b, code point by code point.
RECURSIVE LexLess(_, _)
LexLess(a, b) ==
    IF b = <<>> THEN FALSE
    ELSE IF a = <<>> THEN TRUE
    ELSE IF Ord(Head(a)) # Ord(Head(b)) THEN Ord(Head(a)) < Ord(Head(b))
    ELSE LexLess(Tail(a), Tail(b))

EndsWith(s, suffix) ==
    /\ Len(s) >= Len(suffix)
    /\ SubSeq(s, Len(s) - Len(suffix) + 1, Len(s)) = suffix

RECURSIVE SortedNames(_)
\* sorted(S) for a set of strings: ascending under LexLess.
SortedNames(S) ==
    IF S = {} THEN <<>>
    ELSE LET m == CHOOSE x \in S : \A y \in S \ {x} : LexLess(x, y)
         IN  <<m>> \o SortedNames(S \ {m})

Range(s) == {s[i] : i \in DOMAIN s}

RECURSIVE Flatten(_)
Flatten(ss) == IF ss = <<>> THEN <<>> ELSE Head(ss) \o Flatten(Tail(ss))

---------------------------------------------------------------------------
(* Bounded inputs                                                          *)

MaxYears == 3

MaxEpisodes == 2

MaxModeEpisodes == 3

MaxLookup == 2

MaxSheetRows == 2

DotCsv == <<".", "c", "s", "v">>

DirEntries ==
    { <<"2", "0", "1", "9">> \o DotCsv,
      <<"2", "0", "2", "0">> \o DotCsv,
      <<"2", "0", "2", "1">> \o DotCsv,
      <<"9">> \o DotCsv,
      <<"x", ".", "t", "x", "t">> }

---------------------------------------------------------------------------
(* repair_synthetic_hes.py: list_year_csvs                                 *)

\* glob.glob(os.path.join(path, "*.csv")): the entries that end in .csv
\* (a leading dot is never matched by "*").
GlobCsv(entries) == {f \in entries : EndsWith(f, DotCsv) /\ Head(f) # "."}

\* Python's s[-n:] on a list.
SliceLast(s, n) ==
    LET start == IF 0 - n < 0
                 THEN (IF Len(s) - n > 0 THEN Len(s) - n ELSE 0)
                 ELSE (IF 0 - n < Len(s) THEN 0 - n ELSE Len(s))
    IN  SubSeq(s, start + 1, Len(s))

\* The list before the emptiness test of line 29.
YearCsvs(entries, n) ==
    LET sorted == SortedNames(GlobCsv(entries))
    IN  IF n # NA THEN SliceLast(sorted, Val(n)) ELSE sorted

---------------------------------------------------------------------------
(* Episode rows                                                            *)

\* The columns of NEEDED_COLS the pipeline computes with.  ADMISORC,
\* STARTAGE, SPELBGIN, SPELEND, FYEAR and PARTYEAR are read and never used.
NEEDED_COLS ==
    {"PSEUDO_HESID", "EPIKEY", "ADMIDATE", "DISDATE", "ADMIMETH",
     "DIAG_4_01", "ETHNOS", "SEX", "LSOA11"}

P1 == <<"P", "1">>

P2 == <<"P", "2">>

\* A row of an input CSV file; SUSHRG stands for any column outside NEEDED_COLS.
CsvRow(pid, key, adm, dis, meth, diag, eth, sex, lsoa) ==
    [PSEUDO_HESID |-> pid, EPIKEY |-> key, ADMIDATE |-> adm, DISDATE |-> dis,
     ADMIMETH |-> meth, DIAG_4_01 |-> diag, ETHNOS |-> eth, SEX |-> sex,
     LSOA11 |-> lsoa, SUSHRG |-> Some(<<"x">>)]

\* Restriction of a record to the columns in cols.
Project(r, cols) == [c \in (DOMAIN r) \cap cols |-> r[c]]

\* Extension of a record by one column.
WithCol(r, c, v) == [k \in (DOMAIN r) \cup {c} |-> IF k = c THEN v ELSE r[k]]

---------------------------------------------------------------------------
(* repair_synthetic_hes.py: load_df                                        *)

\* read_one: pd.read_csv(path, usecols=lambda c: c in usecols, ...).
read_one(rows) == [i \in DOMAIN rows |-> Project(rows[i], NEEDED_COLS)]

\* main calls load_df: a directory is listed first (lines 66-67).
ListFiles ==
    /\ pc = "main"
    /\ isdir
    /\ files' = YearCsvs(dir, n_years)
    /\ IF files' = <<>>
       THEN pc' = "failed" /\ err' = "No CSV files found"
       ELSE pc' = "reading" /\ err' = err
    /\ UNCHANGED <<dir, isdir, content, n_years, dfs, df, imd, spell, outdir,
                   out, sheet, imdout, df_in>>

\* One turn of the loop of lines 70-72.
ReadYear ==
    /\ pc = "reading"
    /\ Len(dfs) < Len(files)
    /\ dfs' = Append(dfs, read_one(content))
    /\ UNCHANGED <<pc, dir, isdir, content, n_years, files, df, imd, spell,
                   outdir, out, err, sheet, imdout, df_in>>

\* pd.concat and the emptiness test (lines 73, 78-80).
Concat ==
    /\ pc = "reading"
    /\ Len(dfs) = Len(files)
    /\ LET o == Flatten(dfs)
       IN  IF o = <<>>
           THEN pc' = "failed" /\ err' = "Loaded an empty dataframe" /\ df' = df
           ELSE pc' = "loaded" /\ err' = err /\ df' = o
    /\ UNCHANGED <<dir, isdir, content, n_years, files, dfs, imd, spell,
                   outdir, out, sheet, imdout, df_in>>

\* A single file (lines 74-80).
ReadFile ==
    /\ pc = "main"
    /\ ~isdir
    /\ LET o == read_one(content)
       IN  IF o = <<>>
           THEN pc' = "failed" /\ err' = "Loaded an empty dataframe" /\ df' = df
           ELSE pc' = "loaded" /\ err' = err /\ df' = o
    /\ UNCHANGED <<dir, isdir, content, n_years, files, dfs, imd, spell,
                   outdir, out, sheet, imdout, df_in>>

---------------------------------------------------------------------------
(* repair_synthetic_hes.py: attach_imd                                     *)

Columns(frame) == DOMAIN frame[1]

\* DataFrame.rename(columns={old: new}) on one row.
Rename(r, old, new) ==
    IF old \notin DOMAIN r THEN r
    ELSE [k \in ((DOMAIN r) \ {old}) \cup {new} |->
            IF k = new THEN r[old] ELSE r[k]]

\* Lines 85-86.
ImdRenamed(l, d) ==
    IF "lsoa11_code" \in l.columns /\ "LSOA11" \in Columns(d)
    THEN [columns |-> (l.columns \ {"lsoa11_code"}) \cup {"LSOA11"},
          rows |-> [i \in DOMAIN l.rows |->
                        Rename(l.rows[i], "lsoa11_code", "LSOA11")]]
    ELSE l

\* Line 87.
HasImdColumns(l) == {"LSOA11", "imd_quintile"} \subseteq l.columns

\* No deduplication of the lookup.
keep_duplicates(rows) == rows

RECURSIVE drop_duplicates(_)
\* DataFrame.drop_duplicates("LSOA11"): the first row of every code is kept
\* (missing codes count as one code).
drop_duplicates(rows) ==
    IF rows = <<>> THEN <<>>
    ELSE LET init == SubSeq(rows, 1, Len(rows) - 1)
             last == rows[Len(rows)]
         IN  IF \E i \in DOMAIN init : init[i].LSOA11 = last.LSOA11
             THEN drop_duplicates(init)
             ELSE Append(drop_duplicates(init), last)

\* df.merge(right, on="LSOA11", how="left"): pandas matches a missing key
\* with a missing key.
merge_left(left, right) ==
    Flatten([i \in DOMAIN left |->
        LET Match(r) == r.LSOA11 = left[i].LSOA11
            m == SelectSeq(right, Match)
        IN  IF m = <<>>
            THEN <<WithCol(left[i], "imd_quintile", NA)>>
            ELSE [j \in DOMAIN m |->
                      WithCol(left[i], "imd_quintile", m[j].imd_quintile)]])

\* Line 90, on a lookup that passed line 87.
attach_imd(d, l) ==
    LET sel == [i \in DOMAIN l.rows |->
                    Project(l.rows[i], {"LSOA11", "imd_quintile"})]
    IN  merge_left(d, drop_duplicates(sel))

AttachImd ==
    /\ pc = "loaded"
    /\ LET l == ImdRenamed(imd, df)
       IN  IF ~HasImdColumns(l)
           THEN pc' = "failed" /\ err' = "IMD parquet must have columns" /\ df' = df
           ELSE pc' = "joined" /\ err' = err /\ df' = attach_imd(df, l)
    /\ UNCHANGED <<dir, isdir, content, n_years, files, dfs, imd, spell,
                   outdir, out, sheet, imdout, df_in>>

---------------------------------------------------------------------------
(* repair_synthetic_hes.py: clean_and_collapse, dates and per-episode LOS  *)

\* pd.Timestamp("1900-01-01") as a day number.
CUTOFF == 0

\* pd.to_datetime(x, errors="coerce").
to_datetime(x) == IF x[1] = "ts" THEN x ELSE NaT

\* RepairDate with the cutoff day itself treated as a dummy date.
RepairDateInclusive(x) ==
    LET t == to_datetime(x)
    IN  IF t[1] = "ts" /\ t[2] <= CUTOFF THEN NaT ELSE t

\* Lines 100-101 on one cell (NaT < CUTOFF is False).
RepairDate(x) ==
    LET t == to_datetime(x)
    IN  IF t[1] = "ts" /\ t[2] < CUTOFF THEN NaT ELSE t

\* (dis - adm).dt.days + 1, missing when either timestamp is.
LosDays(adm, dis) ==
    IF adm[1] = "ts" /\ dis[1] = "ts" THEN Some(dis[2] - adm[2] + 1) ELSE NA

\* Lines 102-103 on one row.
EpisodeLos(r) ==
    LET los == LosDays(r.ADMIDATE, r.DISDATE)
    IN  IF los # NA /\ Val(los) <= 0 THEN NA ELSE los

\* Lines 98-101.
RepairDates ==
    /\ pc = "joined"
    /\ df_in' = df
    /\ df' = [i \in DOMAIN df |->
                [c \in DOMAIN df[i] |->
                    IF c \in {"ADMIDATE", "DISDATE"}
                    THEN RepairDate(df[i][c]) ELSE df[i][c]]]
    /\ pc' = "repaired"
    /\ UNCHANGED <<dir, isdir, content, n_years, files, dfs, imd, spell,
                   outdir, out, err, sheet, imdout>>

\* Lines 102-107 (the Int64 cast of imd_quintile changes no value).
ComputeLos ==
    /\ pc = "repaired"
    /\ df' = [i \in DOMAIN df |-> WithCol(df[i], "los_days", EpisodeLos(df[i]))]
    /\ pc' = "registered"
    /\ UNCHANGED <<dir, isdir, content, n_years, files, dfs, imd, spell,
                   outdir, out, err, sheet, imdout, df_in>>

---------------------------------------------------------------------------
(* clean_and_collapse: the DuckDB query (lines 113-187)                    *)

RECURSIVE Distinct(_)
\* The values of a sequence, each once, in order of first appearance.
Distinct(s) ==
    IF s = <<>> THEN <<>>
    ELSE LET init == SubSeq(s, 1, Len(s) - 1)
         IN  IF s[Len(s)] \in Range(init)
             THEN Distinct(init)
             ELSE Append(Distinct(init), s[Len(s)])

SetMax(S) == CHOOSE m \in S : \A x \in S : x <= m

\* GROUP BY and PARTITION BY keys: NULLs fall in one group.
EpisodeKey(r) == <<r.PSEUDO_HESID, r.ADMIDATE, r.DISDATE>>

SpellKey(r) == <<r.PSEUDO_HESID, r.adm, r.dis>>

\* The SQL comparison a = b as a join condition: never satisfied by NULL.
SqlEq(a, b) == a # NA /\ b # NA /\ a = b

SqlEqTs(a, b) == a # NaT /\ b # NaT /\ a = b

\* ON b.PSEUDO_HESID = d.PSEUDO_HESID AND b.adm = d.adm AND b.dis = d.dis.
JoinOn(b, d) ==
    /\ SqlEq(b.PSEUDO_HESID, d.PSEUDO_HESID)
    /\ SqlEqTs(b.adm, d.adm)
    /\ SqlEqTs(b.dis, d.dis)

\* LEFT(COALESCE(CAST(ADMIMETH AS VARCHAR), ''), 1) = '2'.
StartsWith2(meth) ==
    LET text == IF meth = NA THEN <<>> ELSE Val(meth)
    IN  SubSeq(text, 1, 1) = <<"2">>

\* The values ANY_VALUE(imd_quintile) may return for a group.
AnyValues(g) ==
    LET present == {r.imd_quintile : r \in {x \in Range(g) : x.imd_quintile # NA}}
    IN  IF present = {} THEN {NA} ELSE present

\* COUNT(*) in place of COUNT(DISTINCT EPIKEY).
CountRows(g) == Len(g)

\* COUNT(DISTINCT EPIKEY) over the rows g of a group (NULLs are not counted).
CountDistinctEpikey(g) ==
    Cardinality({Val(r.EPIKEY) : r \in {x \in Range(g) : x.EPIKEY # NA}})

EpisodeKeys(episodes) == Distinct([i \in DOMAIN episodes |-> EpisodeKey(episodes[i])])

\* CTE base (lines 114-126); any[i] is what ANY_VALUE returns for group i.
base(episodes, any) ==
    LET keys == EpisodeKeys(episodes)
    IN  [i \in DOMAIN keys |->
            LET InGroup(r) == EpisodeKey(r) = keys[i]
                g == SelectSeq(episodes, InGroup)
                los == {Val(r.los_days) : r \in {x \in Range(g) : x.los_days # NA}}
            IN  [PSEUDO_HESID |-> keys[i][1],
                 adm |-> keys[i][2],
                 dis |-> keys[i][3],
                 n_episodes |-> CountDistinctEpikey(g),
                 los_days |-> IF los = {} THEN NA ELSE Some(SetMax(los)),
                 any_emerg |-> \E r \in Range(g) : StartsWith2(r.ADMIMETH),
                 imd_quintile |-> any[i]]]

\* CTEs diag_counts, ethn_counts, sex_counts (lines 127-132, 144-149, 161-166).
counts(episodes, col) ==
    LET NotNull(r) == r[col] # NA
        rows == SelectSeq(episodes, NotNull)
        keys == Distinct([i \in DOMAIN rows |-> <<EpisodeKey(rows[i]), rows[i][col]>>])
    IN  [i \in DOMAIN keys |->
            [PSEUDO_HESID |-> keys[i][1][1],
             adm |-> keys[i][1][2],
             dis |-> keys[i][1][3],
             v |-> keys[i][2],
             cnt |-> Cardinality({j \in DOMAIN rows :
                        <<EpisodeKey(rows[j]), rows[j][col]>> = keys[i]})]]

\* ORDER BY cnt DESC, v: a comes before b.
RankBefore(a, b) ==
    \/ a.cnt > b.cnt
    \/ a.cnt = b.cnt /\ LexLess(Val(a.v), Val(b.v))

\* ROW_NUMBER() OVER (PARTITION BY PSEUDO_HESID, adm, dis ORDER BY cnt DESC, v).
RowNumber(cs, i) ==
    1 + Cardinality({j \in DOMAIN cs :
            SpellKey(cs[j]) = SpellKey(cs[i]) /\ RankBefore(cs[j], cs[i])})

\* mode with WHERE rn <= 2.
FirstTwo(cs) ==
    LET idx == {i \in DOMAIN cs : RowNumber(cs, i) <= 2}
        first == [i \in DOMAIN cs |-> IF i \in idx THEN <<cs[i]>> ELSE <<>>]
    IN  Flatten(first)

\* CTEs diag_mode, ethn_mode, sex_mode (lines 133-143, 150-160, 167-177).
mode(cs) ==
    LET IsFirst(i) == RowNumber(cs, i) = 1
        idx == {i \in DOMAIN cs : IsFirst(i)}
        first == [i \in DOMAIN cs |-> IF i \in idx THEN <<cs[i]>> ELSE <<>>]
    IN  Flatten(first)

diag_mode(episodes) == mode(counts(episodes, "DIAG_4_01"))

ethn_mode(episodes) == mode(counts(episodes, "ETHNOS"))

sex_mode(episodes) == mode(counts(episodes, "SEX"))

\* b LEFT JOIN m ON ..., selecting b.* and m.v under the name col.
left_join(b, m, col) ==
    Flatten([i \in DOMAIN b |->
        LET Match(d) == JoinOn(b[i], d)
            hits == SelectSeq(m, Match)
        IN  IF hits = <<>>
            THEN <<WithCol(b[i], col, NA)>>
            ELSE [j \in DOMAIN hits |-> WithCol(b[i], col, hits[j].v)]])

\* The final SELECT (lines 178-186).
collapse_query(episodes, any) ==
    left_join(
        left_join(
            left_join(base(episodes, any), diag_mode(episodes), "primary_diag"),
            ethn_mode(episodes), "ethnicity"),
        sex_mode(episodes), "sex")

\* The ways ANY_VALUE may resolve, one value for every group.
AnyChoices(episodes) ==
    LET keys == EpisodeKeys(episodes)
        Group(i) == LET InGroup(r) == EpisodeKey(r) = keys[i]
                    IN  SelectSeq(episodes, InGroup)
        all == UNION {AnyValues(Group(i)) : i \in DOMAIN keys}
    IN  {f \in [DOMAIN keys -> all] :
            \A i \in DOMAIN keys : f[i] \in AnyValues(Group(i))}

Collapse ==
    /\ pc = "registered"
    /\ \E any \in AnyChoices(df) : spell' = collapse_query(df, any)
    /\ pc' = "aggregated"
    /\ UNCHANGED <<dir, isdir, content, n_years, files, dfs, df, imd,
                   outdir, out, err, sheet, imdout, df_in>>

---------------------------------------------------------------------------
(* clean_and_collapse: final LOS, filter and identifier (lines 189-204)    *)

MaxLosDays == 365 * 2

\* LosOk with the upper bound excluded.
LosBelowMax(los) == los = NA \/ (Val(los) >= 1 /\ Val(los) < MaxLosDays)

\* Lines 191-192 on a recomputed LOS.
LosOk(los) == los = NA \/ (Val(los) >= 1 /\ Val(los) <= MaxLosDays)

\* Lines 190-193.
FilterLos ==
    /\ pc = "aggregated"
    /\ LET re == [i \in DOMAIN spell |->
                    [spell[i] EXCEPT !.los_days = LosDays(spell[i].adm, spell[i].dis)]]
           Ok(r) == LosOk(r.los_days)
       IN  spell' = SelectSeq(re, Ok)
    /\ pc' = "filtered"
    /\ UNCHANGED <<dir, isdir, content, n_years, files, dfs, df, imd,
                   outdir, out, err, sheet, imdout, df_in>>

Digit == <<"0", "1", "2", "3", "4", "5", "6", "7", "8", "9">>

RECURSIVE Decimal(_)
\* The decimal numeral of a natural number.
Decimal(n) ==
    IF n < 10 THEN <<Digit[n + 1]>>
    ELSE Append(Decimal(n \div 10), Digit[(n % 10) + 1])

\* Series.astype("string") on a timestamp column: NaT becomes <NA>; the
\* text of a timestamp is written as the numeral of its day.
TsAsString(t) == IF t = NaT THEN NA ELSE Some(Decimal(t[2]))

\* + on nullable strings: <NA> when either operand is.
StrAdd(a, b) == IF a = NA \/ b = NA THEN NA ELSE Some(Val(a) \o Val(b))

\* Lines 196-200 on one row.
SpellIdOf(r) ==
    StrAdd(StrAdd(StrAdd(StrAdd(r.PSEUDO_HESID, Some(<<"|">>)),
                         TsAsString(r.adm)),
                  Some(<<"|">>)),
           TsAsString(r.dis))

\* Lines 196-204.
SpellId ==
    /\ pc = "filtered"
    /\ spell' = [i \in DOMAIN spell |-> WithCol(spell[i], "spell_id", SpellIdOf(spell[i]))]
    /\ pc' = "collapsed"
    /\ UNCHANGED <<dir, isdir, content, n_years, files, dfs, df, imd,
                   outdir, out, err, sheet, imdout, df_in>>

\* Write reached also after a failed step.
WriteAlways ==
    /\ pc \in {"collapsed", "failed"}
    /\ out = NA
    /\ pc' = "done"
    /\ out' = Some(spell)
    /\ UNCHANGED <<dir, isdir, content, n_years, files, dfs, df, imd, spell,
                   outdir, err, sheet, imdout, df_in>>

\* main, lines 221-223: os.makedirs("") raises FileNotFoundError.
Write ==
    /\ pc = "collapsed"
    /\ IF outdir = ""
       THEN pc' = "failed" /\ err' = "makedirs" /\ out' = out
       ELSE pc' = "done" /\ err' = err /\ out' = Some(spell)
    /\ UNCHANGED <<dir, isdir, content, n_years, files, dfs, df, imd, spell,
                   outdir, sheet, imdout, df_in>>

---------------------------------------------------------------------------
(* process_imd.py                                                          *)

\* Quintile without the shift of the decile.
QuintileUnshifted(decile) == decile \div 2 + 1

\* Line 12 on one decile.
Quintile(decile) == (decile - 1) \div 2 + 1

\* Lines 7-12: the columns are renamed, two are kept, the quintile is added.
\* Selecting a column the sheet lacks raises KeyError.
Reshape ==
    /\ pc = "imd_read"
    /\ LET l == [columns |-> {IF c = "lsoa_code_(2011)" THEN "lsoa11_code"
                              ELSE IF c = "index_of_multiple_deprivation_(imd)_decile"
                                   THEN "imd_decile" ELSE c : c \in sheet.columns},
                 rows |-> [i \in DOMAIN sheet.rows |->
                    Rename(Rename(sheet.rows[i], "lsoa_code_(2011)", "lsoa11_code"),
                           "index_of_multiple_deprivation_(imd)_decile", "imd_decile")]]
       IN  IF ~({"lsoa11_code", "imd_decile"} \subseteq l.columns)
           THEN pc' = "failed" /\ err' = "not in index" /\ sheet' = sheet
           ELSE /\ pc' = "imd_reshaped"
                /\ err' = err
                /\ sheet' =
                     [columns |-> {"lsoa11_code", "imd_decile", "imd_quintile"},
                      rows |-> [i \in DOMAIN l.rows |->
                         WithCol(Project(l.rows[i], {"lsoa11_code", "imd_decile"}),
                                 "imd_quintile", Some(Quintile(l.rows[i].imd_decile)))]]
    /\ UNCHANGED <<dir, isdir, content, n_years, files, dfs, df, imd, spell,
                   outdir, out, imdout, df_in>>

\* Line 13.
WriteImd ==
    /\ pc = "imd_reshaped"
    /\ imdout' = Some(sheet)
    /\ pc' = "imd_done"
    /\ UNCHANGED <<dir, isdir, content, n_years, files, dfs, df, imd, spell,
                   outdir, out, err, sheet, df_in>>

---------------------------------------------------------------------------
(* Inputs                                                                  *)

RECURSIVE SeqOf(_)
\* The elements of a finite set, listed in some order.
SeqOf(S) ==
    IF S = {} THEN <<>>
    ELSE LET x == CHOOSE y \in S : TRUE
         IN  <<x>> \o SeqOf(S \ {x})

RECURSIVE NonDecreasing(_, _, _)
\* The non-decreasing sequences of k numbers of lo..hi.
NonDecreasing(k, lo, hi) ==
    IF k = 0 THEN {<<>>}
    ELSE UNION {{<<i>> \o t : t \in NonDecreasing(k - 1, i, hi)} : i \in lo..hi}

\* The frames of 1..n rows drawn from rows, one listing per multiset of rows:
\* clean_and_collapse depends on the order of its input rows only in the
\* order of its output rows.
Frames(rows, n) ==
    LET rs == SeqOf(rows)
    IN  UNION {{[i \in 1..k |-> rs[f[i]]] : f \in NonDecreasing(k, 1, Len(rs))} :
               k \in 1..n}

\* All sequences of 0..n elements of S.
SeqsUpTo(S, n) == UNION {[1..k -> S] : k \in 0..n}

A == <<"A">>

B == <<"B">>

DateCells == {NaT, BadDate, Ts(-1), Ts(0), Ts(1), Ts(730)}

\* An episode as attach_imd returns it.
Episode(pid, key, adm, dis, diag, eth, sex) ==
    WithCol(Project(CsvRow(pid, key, adm, dis, Some(<<"2", "1">>), diag, eth,
                           sex, Some(A)),
                    NEEDED_COLS),
            "imd_quintile", Some(1))

\* Episodes that differ in patient and dates.
DateRows ==
    {Episode(Some(P1), Some(1), adm, dis, Some(A), Some(A), Some(<<"1">>)) :
        adm \in DateCells, dis \in DateCells}
    \cup
    {Episode(Some(P2), Some(1), adm, dis, Some(A), Some(A), Some(<<"1">>)) :
        adm \in {NaT, Ts(0)}, dis \in {NaT, Ts(1)}}

\* (DIAG_4_01, ETHNOS, SEX) of an episode.
CodeTriples ==
    { <<NA, NA, NA>>,
      <<Some(A), Some(B), Some(<<"1">>)>>,
      <<Some(B), Some(A), Some(<<"2">>)>> }

\* Episodes of one patient that differ in episode key, dates and codes.
CodeRows ==
    {Episode(Some(P1), Some(key), adm, dis, c[1], c[2], c[3]) :
        key \in {1, 2}, adm \in {NaT, Ts(0)}, dis \in {Ts(1), Ts(731)},
        c \in CodeTriples}

FileContents ==
    LET r1 == CsvRow(Some(P1), Some(1), Ts(0), Ts(1), Some(<<"2", "1">>),
                     Some(A), Some(A), Some(<<"1">>), Some(A))
        r2 == CsvRow(Some(P1), Some(2), Ts(-1), Ts(1), Some(<<"1", "1">>),
                     Some(B), NA, Some(<<"1">>), Some(B))
    IN  {<<>>, <<r1>>, <<r1, r2>>}

\* The column sets of a lookup file: as process_imd writes it, with the key
\* already named LSOA11, without the quintile, with another key name.
LookupSchemas ==
    { {"lsoa11_code", "imd_decile", "imd_quintile"},
      {"LSOA11", "imd_quintile"},
      {"lsoa11_code", "imd_decile"},
      {"lsoa", "imd_quintile"} }

LookupRow(cols, code, q) ==
    [c \in cols |-> IF c = "imd_quintile" THEN Some(q)
                    ELSE IF c = "imd_decile" THEN Some(2 * q)
                    ELSE code]

Lookups(codes, n) ==
    UNION {{[columns |-> cols, rows |-> rows] :
              rows \in SeqsUpTo({LookupRow(cols, code, q) :
                                    code \in codes, q \in {1, 2}}, n)} :
           cols \in LookupSchemas}

Sheets ==
    UNION {{[columns |-> cols, rows |-> rows] :
              rows \in SeqsUpTo({[c \in cols |->
                                    IF c = "lsoa_code_(2011)" THEN code
                                    ELSE IF c = "lsoa_name_(2011)" THEN A
                                    ELSE d] :
                                 code \in {A, B}, d \in 1..10}, MaxSheetRows)} :
           cols \in { {"lsoa_code_(2011)", "lsoa_name_(2011)",
                       "index_of_multiple_deprivation_(imd)_decile"},
                      {"lsoa_code_(2011)", "lsoa_name_(2011)"} }}

NoSheet == [columns |-> {}, rows |-> <<>>]

---------------------------------------------------------------------------
(* Specifications                                                          *)

Idle ==
    /\ files = <<>>
    /\ dfs = <<>>
    /\ spell = <<>>
    /\ out = NA
    /\ err = ""
    /\ imdout = NA
    /\ df_in = <<>>

\* python repair_synthetic_hes.py --in ... --imd ... --out ... --n_years ...
Init ==
    /\ pc = "main"
    /\ isdir \in BOOLEAN
    /\ dir \in (IF isdir THEN SUBSET DirEntries ELSE {{}})
    /\ n_years \in {NA} \cup {Some(n) : n \in (-1)..MaxYears}
    /\ content \in FileContents
    /\ imd \in Lookups({Some(A)}, 1)
    /\ outdir \in {"", "data"}
    /\ df = <<>>
    /\ sheet = NoSheet
    /\ Idle

Next ==
    \/ ListFiles
    \/ ReadYear
    \/ Concat
    \/ ReadFile
    \/ AttachImd
    \/ RepairDates
    \/ ComputeLos
    \/ Collapse
    \/ FilterLos
    \/ SpellId
    \/ Write

Spec == Init /\ [][Next]_vars

NoRun ==
    /\ isdir = FALSE
    /\ dir = {}
    /\ n_years = NA
    /\ content = <<>>
    /\ outdir = "data"

\* attach_imd called on a frame and a lookup.
InitJoin ==
    /\ pc = "loaded"
    /\ df \in {[i \in DOMAIN codes |->
                  Project(CsvRow(Some(P1), Some(i), Ts(0), Ts(1), NA, Some(A),
                                 Some(A), Some(<<"1">>), codes[i]), NEEDED_COLS)] :
               codes \in SeqsUpTo({NA, Some(A), Some(B)}, MaxEpisodes) \ {<<>>}}
    /\ imd \in Lookups({NA, Some(A), Some(B)}, MaxLookup)
    /\ sheet = NoSheet
    /\ NoRun
    /\ Idle

NextJoin == AttachImd

SpecJoin == InitJoin /\ [][NextJoin]_vars

NextCollapse ==
    \/ RepairDates
    \/ ComputeLos
    \/ Collapse
    \/ FilterLos
    \/ SpellId

\* clean_and_collapse called on episodes that differ in patient and dates.
InitCollapse ==
    /\ pc = "joined"
    /\ df \in Frames(DateRows, MaxEpisodes)
    /\ imd = NoSheet
    /\ sheet = NoSheet
    /\ NoRun
    /\ Idle

SpecCollapse == InitCollapse /\ [][NextCollapse]_vars

\* clean_and_collapse called on episodes that differ in key and codes.
InitModes ==
    /\ pc = "joined"
    /\ df \in Frames(CodeRows, MaxModeEpisodes)
    /\ imd = NoSheet
    /\ sheet = NoSheet
    /\ NoRun
    /\ Idle

SpecModes == InitModes /\ [][NextCollapse]_vars

\* python process_imd.py --in ... --out ...
InitImd ==
    /\ pc = "imd_read"
    /\ sheet \in Sheets
    /\ df = <<>>
    /\ imd = NoSheet
    /\ NoRun
    /\ Idle

NextImd ==
    \/ Reshape
    \/ WriteImd

SpecImd == InitImd /\ [][NextImd]_vars

---------------------------------------------------------------------------
(* Properties                                                              *)

Aggregated == pc \in {"aggregated", "filtered", "collapsed", "done"}

Filtered == pc \in {"filtered", "collapsed", "done"}

\* The episodes of df in the spell group of the spell row r.
GroupOf(r) ==
    {i \in DOMAIN df :
        /\ df[i].PSEUDO_HESID = r.PSEUDO_HESID
        /\ df[i].ADMIDATE = r.adm
        /\ df[i].DISDATE = r.dis}

\* The most frequent present value of column col among the episodes G, the
\* smallest such value on a tie, NA when no episode has a value.
MostFrequent(G, col) ==
    LET vals == {df[i][col] : i \in {j \in G : df[j][col] # NA}}
        N(v) == Cardinality({i \in G : df[i][col] = v})
    IN  IF vals = {} THEN NA
        ELSE CHOOSE v \in vals :
                \A w \in vals \ {v} :
                    N(v) > N(w) \/ (N(v) = N(w) /\ LexLess(Val(v), Val(w)))

\* C1: in every spell row, primary_diag, ethnicity and sex are the most
\* frequent present DIAG_4_01, ETHNOS and SEX of the group's episodes (ties
\* to the smallest code), groups with a missing date included.
C1_ModeOfGroup ==
    Aggregated =>
        \A i \in DOMAIN spell :
            /\ spell[i].primary_diag = MostFrequent(GroupOf(spell[i]), "DIAG_4_01")
            /\ spell[i].ethnicity = MostFrequent(GroupOf(spell[i]), "ETHNOS")
            /\ spell[i].sex = MostFrequent(GroupOf(spell[i]), "SEX")

\* The (patient, admission, discharge) triples of the repaired episodes.
Triples == {<<df[i].PSEUDO_HESID, df[i].ADMIDATE, df[i].DISDATE>> : i \in DOMAIN df}

\* The days from admission to discharge of a triple, both included; {} when
\* a date is missing.
TripleLos(k) ==
    IF k[2][1] = "ts" /\ k[3][1] = "ts" THEN {k[3][2] - k[2][2] + 1} ELSE {}

RowTriple(r) == <<r.PSEUDO_HESID, r.adm, r.dis>>

\* C2: no two spell rows have the same triple (missing dates equal to each
\* other); after the query there is one row for every triple of the
\* episodes, after the filter one for every triple whose length of stay is
\* missing or in 1..730.
C2_OneRowPerSpell ==
    Aggregated =>
        /\ \A i, j \in DOMAIN spell :
              RowTriple(spell[i]) = RowTriple(spell[j]) => i = j
        /\ {RowTriple(spell[i]) : i \in DOMAIN spell} =
              IF Filtered
              THEN {k \in Triples : \A l \in TripleLos(k) : l >= 1 /\ l <= 730}
              ELSE Triples

\* Two episodes without admission date form one group, two codes compete in
\* it, and a spell of the frame was dropped.
C2_Witness ==
    /\ pc = "collapsed"
    /\ \E i, j \in DOMAIN df :
          /\ i # j
          /\ df[i].ADMIDATE = NaT /\ df[j].ADMIDATE = NaT
          /\ df[i].DISDATE = df[j].DISDATE
          /\ df[i].DIAG_4_01 = Some(A) /\ df[j].DIAG_4_01 = Some(B)
    /\ \E i \in DOMAIN df : df[i].ADMIDATE = Ts(0) /\ df[i].DISDATE = Ts(731)
    /\ Len(spell) = 1

\* C3: a spell is dropped exactly when its recomputed length of stay is
\* present and below 1 or above 730; every output row has los_days missing
\* or in 1..730.
C3_LosFilter ==
    Filtered =>
        /\ \A k \in Triples :
              (\E i \in DOMAIN spell : RowTriple(spell[i]) = k)
                 <=> ~(\E l \in TripleLos(k) : l < 1 \/ l > 730)
        /\ \A i \in DOMAIN spell :
              /\ spell[i].los_days = TripleLos(RowTriple(spell[i]))
              /\ \A l \in spell[i].los_days : l \in 1..730

\* A stay of exactly 730 days is kept beside a dropped stay of 731 days.
C3_Witness ==
    /\ pc = "collapsed"
    /\ \E i, j \in DOMAIN df :
          /\ df[i].ADMIDATE = Ts(1) /\ df[i].DISDATE = Ts(730)
          /\ df[j].ADMIDATE = Ts(0) /\ df[j].DISDATE = Ts(730)
    /\ Len(spell) = 1
    /\ spell[1].los_days = {730}

\* C4: no two output rows have the same spell_id, rows with a missing date
\* included.
C4_UniqueSpellId ==
    pc = "collapsed" =>
        \A i, j \in DOMAIN spell :
            spell[i].spell_id = spell[j].spell_id => i = j

\* C5: date repair turns a date before 1900-01-01 and a text that is no date
\* into the missing date and keeps every other date, for both date columns;
\* no episode or spell has a length of stay unless its dates, as received,
\* are both present and not before 1900-01-01.
C5_DateRepair ==
    pc # "joined" =>
        /\ Len(df) = Len(df_in)
        /\ \A i \in DOMAIN df : \A c \in {"ADMIDATE", "DISDATE"} :
              LET x == df_in[i][c]
              IN  IF x[1] = "ts" /\ x[2] >= 0
                  THEN df[i][c] = x
                  ELSE df[i][c] = <<"NaT", 0>>
        /\ \A i \in DOMAIN df :
              ("los_days" \in DOMAIN df[i] /\ df[i].los_days # {}) =>
                  /\ df_in[i].ADMIDATE[1] = "ts" /\ df_in[i].ADMIDATE[2] >= 0
                  /\ df_in[i].DISDATE[1] = "ts" /\ df_in[i].DISDATE[2] >= 0
        /\ \A i \in DOMAIN spell :
              spell[i].los_days # {} =>
                  /\ spell[i].adm[2] >= 0
                  /\ spell[i].dis[2] >= 0
                  /\ \E j \in DOMAIN df_in :
                        df_in[j].ADMIDATE = spell[i].adm /\ df_in[j].DISDATE = spell[i].dis

\* An admission before 1900, an admission on 1900-01-01, a discharge that is
\* no date: repaired, and the lengths of stay computed.
C5_Witness ==
    /\ pc = "registered"
    /\ \E i, j \in DOMAIN df :
          /\ df_in[i].ADMIDATE = Ts(-1) /\ df[i].ADMIDATE = NaT
          /\ df_in[i].DISDATE = BadDate /\ df[i].DISDATE = NaT
          /\ df[i].los_days = NA
          /\ df_in[j].ADMIDATE = Ts(0) /\ df[j].ADMIDATE = Ts(0)
          /\ df[j].los_days # NA

LookupKey(r) == IF "LSOA11" \in DOMAIN r THEN r.LSOA11 ELSE r.lsoa11_code

\* C6: with a lookup that has the geography code (under either name) and the
\* quintile, attach_imd raises nothing and returns the episodes one for one,
\* each with the quintile of a lookup row of its code, or with no quintile
\* when the lookup has no row of its code.
C6_JoinRows ==
    [][ (pc = "loaded" /\ imd.columns \cap {"LSOA11", "lsoa11_code"} # {}
                       /\ "imd_quintile" \in imd.columns)
        => /\ pc' = "joined"
           /\ err' = ""
           /\ Len(df') = Len(df)
           /\ \A i \in DOMAIN df :
                 /\ [c \in DOMAIN df[i] |-> df'[i][c]] = df[i]
                 /\ LET hits == {j \in DOMAIN imd.rows :
                                    LookupKey(imd.rows[j]) = df[i].LSOA11}
                    IN  IF hits = {}
                        THEN df'[i].imd_quintile = {}
                        ELSE \E j \in hits :
                                df'[i].imd_quintile = imd.rows[j].imd_quintile
      ]_vars

\* The lookup has two rows of one code with different quintiles; one episode
\* has that code and one a code the lookup lacks.
C6_Witness ==
    /\ pc = "joined"
    /\ Len(imd.rows) = 2
    /\ LookupKey(imd.rows[1]) = Some(A) /\ LookupKey(imd.rows[2]) = Some(A)
    /\ imd.rows[1].imd_quintile # imd.rows[2].imd_quintile
    /\ Len(df) = 2
    /\ df[1].LSOA11 = Some(A) /\ df[1].imd_quintile = imd.rows[1].imd_quintile
    /\ df[2].LSOA11 = Some(B) /\ df[2].imd_quintile = NA

\* C7: in directory mode the files read are the matching files in ascending
\* order and, under a limit N (a count, N >= 0), the last N of them (all of
\* them when there are fewer); never more than N.
C7_LastN ==
    (isdir /\ pc # "main") =>
        LET csvs == {f \in dir : EndsWith(f, DotCsv)}
        IN  /\ \A i, j \in DOMAIN files : i < j => LexLess(files[i], files[j])
            /\ Range(files) \subseteq csvs
            /\ (n_years # NA /\ Val(n_years) >= 0) =>
                  /\ Len(files) <= Val(n_years)
                  /\ Range(files) =
                        {f \in csvs :
                            Cardinality({g \in csvs : LexLess(f, g)}) < Val(n_years)}

\* C8: a run that meets a fatal condition stops and writes nothing: no file
\* is parsed before "no CSV files", nothing is joined or cleaned before
\* "empty dataframe", nothing is joined before "must have columns"; what is
\* written is the spell frame of a run that loaded, joined and collapsed.
C8_FatalOrder ==
    /\ (err # "") <=> (pc = "failed")
    /\ pc = "failed" => out = NA /\ ~ENABLED Next
    /\ err = "No CSV files found" => dfs = <<>> /\ df = <<>>
    /\ err = "Loaded an empty dataframe" =>
          df = <<>> /\ df_in = <<>> /\ spell = <<>> /\ Len(dfs) = Len(files)
    /\ err = "IMD parquet must have columns" =>
          /\ df # <<>>
          /\ \A i \in DOMAIN df : "imd_quintile" \notin DOMAIN df[i]
          /\ df_in = <<>> /\ spell = <<>>
    /\ out # NA =>
          /\ pc = "done"
          /\ out = {spell}
          /\ df # <<>>
          /\ \A i \in DOMAIN df :
                "imd_quintile" \in DOMAIN df[i] /\ "los_days" \in DOMAIN df[i]
          /\ \A i \in DOMAIN spell : "spell_id" \in DOMAIN spell[i]

\* Files were read and the lookup lacks a required column: the run has
\* stopped before the join, with nothing written.
C8_Witness ==
    /\ pc = "failed"
    /\ err = "IMD parquet must have columns"
    /\ Len(dfs) = 2
    /\ out = NA

\* C9: n_episodes of a spell row is the number of distinct episode keys
\* among the episodes of its group.
C9_EpisodeCount ==
    Aggregated =>
        \A i \in DOMAIN spell :
            spell[i].n_episodes =
                Cardinality(UNION {df[j].EPIKEY : j \in GroupOf(spell[i])})

\* Three episodes of one group, two of them with the same key.
C9_Witness ==
    /\ pc = "collapsed"
    /\ Len(df) = 3
    /\ Len(spell) = 1
    /\ df[1].EPIKEY = df[2].EPIKEY
    /\ df[3].EPIKEY # df[1].EPIKEY
    /\ spell[1].n_episodes = 2

\* C10: the quintile of a decile d of 1..10 is the least integer not below
\* d / 2, lies in 1..5, is 1 for d = 1, 2 and 5 for d = 9, 10, and does not
\* decrease with d.
C10_Quintile ==
    pc \in {"imd_reshaped", "imd_done"} =>
        \A i \in DOMAIN sheet.rows :
            LET d == sheet.rows[i].imd_decile
                q == sheet.rows[i].imd_quintile
            IN  /\ q \subseteq 1..5
                /\ \E v \in q : 2 * v >= d /\ 2 * (v - 1) < d
                /\ d \in {1, 2} => q = {1}
                /\ d \in {9, 10} => q = {5}
                /\ \A j \in DOMAIN sheet.rows :
                      sheet.rows[j].imd_decile <= d =>
                          \A w \in sheet.rows[j].imd_quintile :
                              \A v \in q : w <= v

\* Deciles 2 and 9 reshaped and written.
C10_Witness ==
    /\ pc = "imd_done"
    /\ Len(sheet.rows) = 2
    /\ sheet.rows[1].imd_decile = 2 /\ sheet.rows[1].imd_quintile = {1}
    /\ sheet.rows[2].imd_decile = 9 /\ sheet.rows[2].imd_quintile = {5}
    /\ imdout = {sheet}

=============================================================================
